---- MODULE Spec2Model ----
(***************************************************************************)
(* EduMind AI: the pedagogical dialogue controller (App.tsx, the version   *)
(* with persistence), the local inference gateway (localLlmService.ts) and *)
(* the persistence collaborator (db.ts).                                   *)
(*                                                                         *)
(* A JavaScript value is a record.  A JSON value carries its type in the   *)
(* field jtype; a property that is undefined is a field that is absent, so *)
(* `"f" \in DOMAIN r` reads "r.f is defined".                              *)
(***************************************************************************)
EXTENDS Integers, Sequences, FiniteSets, TLC

(* ------------------------------ bounds -------------------------------- *)

\* Sends accepted over a run (Date.now()-based ids are numbered 1..MaxSends).
MaxSends == 2

\* Tokens of a raw completion text drawn in the gateway's own specification.
MaxRawLen == 2

\* Changes of subject or grade made in the settings panel over a run.
MaxSettingsChanges == 1

(* --------------------------- types.ts enums --------------------------- *)

GUIDING == "GUIDING"
EXPLAINING == "EXPLAINING"
QUIZZING == "QUIZZING"

PedagogicalState == {GUIDING, EXPLAINING, QUIZZING}

MISTAKE_ANALYSIS == "Mistake Analysis"
CONCEPT_EXPLANATION == "Concept Explanation"
HOMEWORK_HELP == "Homework Help"

TaskMode == {MISTAKE_ANALYSIS, CONCEPT_EXPLANATION, HOMEWORK_HELP}

MATH == "Mathematics"
CHINESE == "Chinese Literature"
ENGLISH == "English"
SCIENCE == "Science"

Subject == {MATH, CHINESE, ENGLISH, SCIENCE}

PRIMARY == "Primary School"
MIDDLE == "Middle School"

Grade == {PRIMARY, MIDDLE}

MasteryLevel == {"Novice", "Intermediate", "Advanced"}

\* StudentProfile (name and email are not read by the prompt builder).
Profile(age, grade, masteryLevel) ==
  [age |-> age, grade |-> grade, masteryLevel |-> masteryLevel]

(* ------------------------- fixed message texts ------------------------ *)

RedirectText == "I noticed you asked for the answer directly. Let's try to solve it step-by-step first. What is your first thought?"

SystemErrorText == "System Error: Could not process logic."

ConnectionErrorText == "Connection Error: I cannot reach your local model. Please check if vLLM/Ollama is running on port 8000."

\* `Welcome! I'm ready to help you with ${student.grade} ${subject}.`
WelcomeText(grade, subj) ==
  "Welcome! I'm ready to help you with " \o grade \o " " \o subj \o "."

\* `Session reset. Ready for ${student.grade} ${subject}.`
ResetText(grade, subj) == "Session reset. Ready for " \o grade \o " " \o subj \o "."

(* ----------------------------- JSON values ---------------------------- *)

JsonNull == [jtype |-> "null"]
JsonNumber == [jtype |-> "number"]
EmptyObject == [jtype |-> "object"]

\* r.f is defined.  Reading a property of a number or a string gives undefined.
Has(r, f) == r.jtype = "object" /\ f \in DOMAIN r

\* JavaScript truthiness of r.f for a string property: defined and not "".
TruthyString(r, f) == Has(r, f) /\ r[f] # ""

\* JavaScript truthiness of r.f for a boolean property: defined and true.
TruthyFlag(r, f) == Has(r, f) /\ r[f]

\* What the model may put in suggested_next_state: the three enum strings, a
\* string outside the enum, and the empty string.
SuggestedValues == PedagogicalState \cup {"REVIEWING", ""}

\* An object carrying all six fields of StructuredAIResponse.
Response(content, monologue, kp, score, next, direct) ==
  [jtype |-> "object",
   content_for_user |-> content,
   internal_monologue |-> monologue,
   knowledge_point_id |-> kp,
   student_mastery_score |-> score,
   suggested_next_state |-> next,
   is_direct_answer_attempt |-> direct]

\* A record whose student_mastery_score is a number outside 0..100.
OutOfRangeScore == 150

OutOfRangeResponse ==
  Response("The answer is 5/6.", "Student confused numerator and denominator.",
           "MATH_05_FRACTIONS", OutOfRangeScore, GUIDING, FALSE)

\* The full records the model draws: each state of the enum suggested with the
\* guardrail flag set and unset, a state outside the enum, no state,
\* records whose knowledge point or monologue is empty, and a score outside
\* 0..100.
FullResponses ==
  { Response("The answer is 5/6.", "Student confused numerator and denominator.",
             "MATH_05_FRACTIONS", 60, s, d) : s \in PedagogicalState, d \in BOOLEAN }
  \cup
  { Response("The answer is 5/6.", "", "MATH_05_FRACTIONS", 60, "REVIEWING", TRUE),
    Response("The answer is 5/6.", "Student confused numerator and denominator.",
             "", 60, "", FALSE),
    OutOfRangeResponse }

\* An object that parses but lacks fields.
PartialObject ==
  [jtype |-> "object", is_direct_answer_attempt |-> TRUE, suggested_next_state |-> EXPLAINING]

\* An answer that shows an expression between code-fence markers (written
\* <fence> here, for the three backquotes), and what is left of it when the
\* markers are deleted.
FencedAnswer == "Write <fence>1/2 + 1/3<fence> as 5/6."
UnfencedAnswer == "Write 1/2 + 1/3 as 5/6."

FencedAnswerResponse ==
  Response(FencedAnswer, "Student confused numerator and denominator.",
           "MATH_05_FRACTIONS", 60, GUIDING, FALSE)

\* Every value JSON.parse can return that the model draws.
JsonValues ==
  FullResponses \cup {JsonNull, JsonNumber, EmptyObject, PartialObject, FencedAnswerResponse}

\* The values a turn of the controller draws: a number and an empty object
\* read like PartialObject without its two fields.
TurnValues == FullResponses \cup {JsonNull, PartialObject}

IsStructuredResponse(r) ==
  /\ r.jtype = "object"
  /\ DOMAIN r = {"jtype", "content_for_user", "internal_monologue", "knowledge_point_id",
                 "student_mastery_score", "suggested_next_state", "is_direct_answer_attempt"}

(* ------------- promptEngineering.ts: constructSystemPrompt ------------ *)

\* The prompt is a sequence of lines.  A line is its text, with the
\* directive phrases that occur in it.
Line(text, phrases) == [text |-> text, phrases |-> phrases]

baseIdentity(subject) ==
  <<Line("You are EduMind, an expert AI tutor for K-12 education specializing in "
           \o subject \o ".", {})>>

audienceConstraint(student) ==
  <<Line("Your student is in " \o student.grade \o " (approx "
           \o ToString(student.age) \o " years old).", {}),
    Line("Adjust your vocabulary and tone to be age-appropriate.",
         {"age-appropriate"}),
    Line("Current Mastery Level: " \o student.masteryLevel \o ".", {})>>

GuidingDirectives ==
  <<Line("CURRENT STATE: [GUIDING/SOCRATIC]", {}),
    Line("- DO NOT provide direct answers.", {"DO NOT provide direct answers"}),
    Line("- Ask guiding questions to help the student realize their mistake.",
         {"guiding questions"}),
    Line("- If they are stuck, provide a small hint, but not the solution.",
         {"small hint"}),
    Line("- Focus on the \"Process\", not the \"Result\".", {"Process"})>>

ExplainingDirectives(student) ==
  <<Line("CURRENT STATE: [EXPLAINING/DEEP DIVE]", {}),
    Line("- The student has shown confusion or explicitly asked for an explanation.", {}),
    Line("- Provide clear, conceptual explanations using analogies suitable for a "
           \o student.grade \o " student.", {"conceptual explanations", "analogies"}),
    Line("- Link the concept to real-world examples.", {"real-world examples"})>>

QuizzingDirectives ==
  <<Line("CURRENT STATE: [QUIZZING/CONSOLIDATION]", {}),
    Line("- The student seems to understand the concept.", {}),
    Line("- Generate a NEW similar problem to test their understanding.",
         {"NEW similar problem"}),
    Line("- Verify if they can apply the knowledge independently.",
         {"apply the knowledge independently"})>>

\* Mutant: the switch has a default branch, the GUIDING directive.
behavioralDirectivesDefaultGuiding(student, currentState) ==
  IF currentState = EXPLAINING THEN ExplainingDirectives(student)
  ELSE IF currentState = QUIZZING THEN QuizzingDirectives
  ELSE GuidingDirectives

\* Mutant: the cases lack their break, and the last assignment wins.
behavioralDirectivesFallThrough(student, currentState) ==
  IF currentState \in {GUIDING, EXPLAINING, QUIZZING} THEN QuizzingDirectives ELSE <<>>

\* switch (currentState): three cases and no default.
behavioralDirectives(student, currentState) ==
  IF currentState = GUIDING THEN GuidingDirectives
  ELSE IF currentState = EXPLAINING THEN ExplainingDirectives(student)
  ELSE IF currentState = QUIZZING THEN QuizzingDirectives
  ELSE <<>>

modeDirectives(mode) ==
  IF mode = MISTAKE_ANALYSIS
    THEN <<Line("You are analyzing a mistake. Find the root cause of the error.",
                {"root cause"})>>
    ELSE <<Line("You are explaining a new concept.", {"new concept"})>>

outputFormat ==
  <<Line("CRITICAL OUTPUT RULES:", {}),
    Line("You must respond in strict JSON format. Do not add markdown backticks around the JSON.",
         {"strict JSON"}),
    Line("JSON Schema:", {}),
    Line("{", {}),
    Line("\"content_for_user\": \"The actual text response to the student.\",", {}),
    Line("\"internal_monologue\": \"Your internal reasoning about the student's state.\",", {}),
    Line("\"knowledge_point_id\": \"Short ID of the concept (e.g., MATH_05_FRACTIONS)\",", {}),
    Line("\"student_mastery_score\": number (0-100 estimate based on conversation),", {}),
    Line("\"suggested_next_state\": \"GUIDING\" | \"EXPLAINING\" | \"QUIZZING\",", {}),
    Line("\"is_direct_answer_attempt\": boolean (true if the user just asked for the answer without trying)", {}),
    Line("}", {})>>

\* return `${baseIdentity} ${audienceConstraint} ${modeDirectives}
\*         ${behavioralDirectives} ${outputFormat}`
constructSystemPrompt(subject, student, mode, currentState) ==
  baseIdentity(subject) \o audienceConstraint(student) \o modeDirectives(mode)
    \o behavioralDirectives(student, currentState) \o outputFormat

(* ------------------- localLlmService.ts: the gateway ------------------ *)

\* A raw completion text is a sequence of tokens: the code-fence marker ```,
\* the word json, a newline, a space, text that is no JSON, and a complete
\* JSON text (with the value it denotes).
Fence == [k |-> "fence"]
JsonWord == [k |-> "jsonword"]
NL == [k |-> "newline"]
SP == [k |-> "space"]
Junk == [k |-> "junk"]
JsonText(v) == [k |-> "json", v |-> v]

\* The replace inside a JSON text: the markers in its strings are deleted.
StripText(str) == IF str = FencedAnswer THEN UnfencedAnswer ELSE str

StripJsonText(v) ==
  IF Has(v, "content_for_user")
    THEN [v EXCEPT !.content_for_user = StripText(@)]
    ELSE v

\* rawContent.replace(/```json\n?|\n?```/g, ''): at each position the first
\* alternative is tried before the second; a match is dropped.
RECURSIVE StripFences(_)
StripFences(s) ==
  IF s = <<>> THEN <<>>
  ELSE IF Len(s) >= 2 /\ s[1] = Fence /\ s[2] = JsonWord
    THEN IF Len(s) >= 3 /\ s[3] = NL
           THEN StripFences(SubSeq(s, 4, Len(s)))
           ELSE StripFences(SubSeq(s, 3, Len(s)))
  ELSE IF Len(s) >= 2 /\ s[1] = NL /\ s[2] = Fence
    THEN StripFences(SubSeq(s, 3, Len(s)))
  ELSE IF s[1] = Fence
    THEN StripFences(Tail(s))
  ELSE IF s[1].k = "json"
    THEN <<JsonText(StripJsonText(s[1].v))>> \o StripFences(Tail(s))
  ELSE <<s[1]>> \o StripFences(Tail(s))

IsSpace(t) == t = NL \/ t = SP

\* String.prototype.trim()
RECURSIVE TrimLeft(_)
TrimLeft(s) == IF s # <<>> /\ IsSpace(s[1]) THEN TrimLeft(Tail(s)) ELSE s

RECURSIVE TrimRight(_)
TrimRight(s) ==
  IF s # <<>> /\ IsSpace(s[Len(s)]) THEN TrimRight(SubSeq(s, 1, Len(s) - 1)) ELSE s

Trim(s) == TrimRight(TrimLeft(s))

\* The outcome of a block: it throws an error or returns a value.
Thrown(e) == [thrown |-> TRUE, error |-> e]
Returned(v) == [thrown |-> FALSE, value |-> v]

\* JSON.parse: one JSON text, white space allowed around it; else SyntaxError.
JSONParse(s) ==
  LET t == Trim(s) IN
  IF Len(t) = 1 /\ t[1].k = "json" THEN Returned(t[1].v) ELSE Thrown("SyntaxError")

\* What the HTTP call does: fetch rejects; the status is not 2xx; the body is
\* no JSON; the body has no choices[0].message.content; it has one.
NetworkError == [kind |-> "network_error"]
HttpError == [kind |-> "http_error"]
BadBody == [kind |-> "bad_body"]
NoContent == [kind |-> "ok"]
Completion(raw) == [kind |-> "ok", content |-> raw]

\* The inner try: clean, then parse; any failure becomes one Error.
ParseCompletion(raw) ==
  LET p == JSONParse(Trim(StripFences(raw))) IN
  IF p.thrown
    THEN Thrown("Error: Failed to parse structured output from Local LLM")
    ELSE Returned(p.value)

\* The body of the outer try.
RequestBody(o) ==
  IF o.kind = "network_error" THEN Thrown("TypeError: Failed to fetch")
  ELSE IF o.kind = "http_error" THEN Thrown("Error: Local API Error: 500 Internal Server Error")
  ELSE IF o.kind = "bad_body" THEN Thrown("SyntaxError: Unexpected token < in JSON")
  ELSE IF "content" \notin DOMAIN o \/ o.content = <<>>
    THEN Thrown("Error: Empty response from local model")
  ELSE ParseCompletion(o.content)

\* `Connection failed to ${endpoint}. Error: ${error}`
ConnectionDiagnostic(e) ==
  CASE e = "TypeError: Failed to fetch" ->
         "Connection failed to http://localhost:8000/v1/chat/completions. Error: TypeError: Failed to fetch"
    [] e = "Error: Local API Error: 500 Internal Server Error" ->
         "Connection failed to http://localhost:8000/v1/chat/completions. Error: Error: Local API Error: 500 Internal Server Error"
    [] e = "SyntaxError: Unexpected token < in JSON" ->
         "Connection failed to http://localhost:8000/v1/chat/completions. Error: SyntaxError: Unexpected token < in JSON"
    [] e = "Error: Empty response from local model" ->
         "Connection failed to http://localhost:8000/v1/chat/completions. Error: Error: Empty response from local model"
    [] OTHER ->
         "Connection failed to http://localhost:8000/v1/chat/completions. Error: Error: Failed to parse structured output from Local LLM"

\* Mutant: the fallback record suggests EXPLAINING.
FallbackResponseExplaining(e) ==
  [jtype |-> "object",
   content_for_user |-> ConnectionErrorText,
   internal_monologue |-> ConnectionDiagnostic(e),
   knowledge_point_id |-> "ERR_CONN",
   student_mastery_score |-> 0,
   suggested_next_state |-> EXPLAINING,
   is_direct_answer_attempt |-> FALSE]

\* Mutant: the fallback record names no knowledge point.
FallbackResponseNoConcept(e) ==
  [jtype |-> "object",
   content_for_user |-> ConnectionErrorText,
   internal_monologue |-> ConnectionDiagnostic(e),
   knowledge_point_id |-> "",
   student_mastery_score |-> 0,
   suggested_next_state |-> GUIDING,
   is_direct_answer_attempt |-> FALSE]

\* The record of the outer catch.
FallbackResponse(e) ==
  [jtype |-> "object",
   content_for_user |-> ConnectionErrorText,
   internal_monologue |-> ConnectionDiagnostic(e),
   knowledge_point_id |-> "ERR_CONN",
   student_mastery_score |-> 0,
   suggested_next_state |-> GUIDING,
   is_direct_answer_attempt |-> FALSE]

\* JSON.stringify(v): the JSON text that denotes v.
JSONStringify(v) == JsonText(v)

\* A string as the content of a request entry.
Text(str) == [k |-> "text", s |-> str]

\* h.role === 'assistant' && h.metadata: an object is truthy, null is not.
SendsMetadata(h) ==
  h.role = "assistant" /\ "metadata" \in DOMAIN h /\ h.metadata.jtype = "object"

\* history.map(h => ({ role: ..., content: ... })); an undefined content is
\* dropped by JSON.stringify of the body.
HistoryEntry(h) ==
  LET role == IF h.role = "assistant" THEN "assistant" ELSE "user" IN
  IF SendsMetadata(h) THEN [role |-> role, content |-> JSONStringify(h.metadata)]
  ELSE IF "content" \in DOMAIN h THEN [role |-> role, content |-> Text(h.content)]
  ELSE [role |-> role]

\* const apiMessages = [system, ...history.map(...), user]
apiMessages(systemPrompt, history, userMessage) ==
  <<[role |-> "system", content |-> systemPrompt]>>
    \o [i \in 1..Len(history) |-> HistoryEntry(history[i])]
    \o <<[role |-> "user", content |-> Text(userMessage)]>>

\* How a promise settles.
Fulfilled(v) == [settled |-> "fulfilled", value |-> v]
Rejected(e) == [settled |-> "rejected", error |-> e]

\* Mutant: the outer catch rethrows instead of returning the fallback record.
sendMessageToLocalLLMRethrows(o) ==
  LET b == RequestBody(o) IN
  IF b.thrown THEN Rejected(b.error) ELSE Fulfilled(b.value)

\* sendMessageToLocalLLM, given what the HTTP call does.
sendMessageToLocalLLM(o) ==
  LET b == RequestBody(o) IN
  IF b.thrown THEN Fulfilled(FallbackResponse(b.error)) ELSE Fulfilled(b.value)

\* The raw texts the gateway is exercised on: every token sequence up to
\* MaxRawLen, and each JSON value inside a ```json fence.
Tokens == {Fence, JsonWord, NL, SP, Junk} \cup {JsonText(v) : v \in JsonValues}

Fenced(v) == <<Fence, JsonWord, NL, JsonText(v), NL, Fence>>

RawTexts ==
  UNION {[1..n -> Tokens] : n \in 0..MaxRawLen} \cup {Fenced(v) : v \in JsonValues}

HttpOutcomes ==
  {NetworkError, HttpError, BadBody, NoContent} \cup {Completion(raw) : raw \in RawTexts}

\* The outcomes a turn of the controller draws: each failure class, and each
\* JSON value as a bare or a fenced completion.
TurnOutcomes ==
  {NetworkError, HttpError, Completion(<<>>), Completion(<<Junk>>)}
    \cup {Completion(<<JsonText(v)>>) : v \in TurnValues}
    \cup {Completion(Fenced(v)) : v \in TurnValues}

(* ----------------------- App.tsx: session state ----------------------- *)

VARIABLES
  messages,      \* useState<ChatMessage[]>
  isLoading,     \* the send-lock
  currentState,  \* useState<PedagogicalState>
  lastMetadata,  \* useState<StructuredAIResponse | undefined>
  turns,         \* the handleSend invocations that have not returned
  sends,         \* sends accepted so far
  netCalls,      \* fetch calls made so far
  savedHistory,  \* the transcript handed to dbService.saveChatHistory last
  mistakes,      \* the records handed to dbService.addMistake, in call order
  subject,       \* useState<Subject>
  student,       \* useState<StudentProfile>
  chatStore,     \* db.ts: the messages stored in 'chats' for the learner
  mistakeStore,  \* db.ts: the records stored in 'mistakes' for the learner
  loads,         \* the loadHistory effects that have not settled
  settingsChanges, \* changes of subject or grade so far
  promptCall,    \* prompt builder alone: the call made and its result
  gwOutcome,     \* gateway alone: what the HTTP call does
  gwResult       \* gateway alone: how sendMessageToLocalLLM settled

vars == <<messages, isLoading, currentState, lastMetadata, turns, sends,
          netCalls, savedHistory, mistakes, subject, student, chatStore, loads,
          settingsChanges, mistakeStore, promptCall, gwOutcome, gwResult>>

appVars == <<messages, isLoading, currentState, lastMetadata, turns, sends,
             netCalls, savedHistory, mistakes, subject, student, chatStore, loads,
             settingsChanges, mistakeStore>>

settingsVars == <<subject, student>>
loadVars == <<loads, settingsChanges>>

Undefined == [jtype |-> "undefined"]
Pending == [settled |-> "pending"]

\* What the learner may have typed when handleSend runs.
InputTexts == {"", "   ", "What is 1/2 + 1/3?"}

\* input.trim()
TrimInput(text) == IF text = "   " THEN "" ELSE text

WelcomeMsg(grade, subj) ==
  [id |-> "welcome", ts |-> 0, role |-> "assistant", content |-> WelcomeText(grade, subj)]
ResetMsg ==
  [id |-> "reset", ts |-> 0, role |-> "assistant",
   content |-> ResetText(student.grade, subject)]
UserMsg(tid, text) == [id |-> "now", ts |-> tid, role |-> "user", content |-> text]
\* Mutant: the error notice carries the last response as its metadata.
ErrorMsgWithMetadata(tid) ==
  [id |-> "now", ts |-> tid, role |-> "assistant", content |-> SystemErrorText,
   metadata |-> lastMetadata]

ErrorMsg(tid) == [id |-> "now", ts |-> tid, role |-> "assistant", content |-> SystemErrorText]

(* ------------------------ App.tsx: handleSend ------------------------- *)

\* Mutant: the guard does not test the send-lock.
SendAcceptedUnlocked(text, loading) == TrimInput(text) # ""

\* if (!input.trim() || isLoading) return;
SendAccepted(text, loading) == TrimInput(text) # "" /\ ~loading

\* Mutant: a legality rule that lets GUIDING move to EXPLAINING only.
NextStateStepwise(response, reqState, cur) ==
  IF TruthyString(response, "suggested_next_state")
       /\ response.suggested_next_state # reqState
       /\ ~(reqState = GUIDING /\ response.suggested_next_state = QUIZZING)
    THEN response.suggested_next_state
    ELSE cur

\* Mutant: the test reads the state as it is when the response is handled.
NextStateComparesCurrent(response, reqState, cur) ==
  IF TruthyString(response, "suggested_next_state")
       /\ response.suggested_next_state # cur
    THEN response.suggested_next_state
    ELSE cur

\* Mutant: a response that suggests nothing new sends the controller back to
\* GUIDING.
NextStateDefaultsToGuiding(response, reqState, cur) ==
  IF TruthyString(response, "suggested_next_state")
       /\ response.suggested_next_state # reqState
    THEN response.suggested_next_state
    ELSE GUIDING

\* if (response.suggested_next_state && response.suggested_next_state !== currentState)
\*   setCurrentState(response.suggested_next_state);
\* currentState is the value captured when the turn was sent (reqState); cur is
\* the state the setter would overwrite.
NextState(response, reqState, cur) ==
  IF TruthyString(response, "suggested_next_state")
       /\ response.suggested_next_state # reqState
    THEN response.suggested_next_state
    ELSE cur

\* Mutant: the guardrail tests the state the response has just set.
GuardrailStateAdopted(reqState, adopted) == adopted

\* The state the guardrail tests: the handler's captured currentState, not the
\* value just handed to setCurrentState.
GuardrailState(reqState, adopted) == reqState

\* Mutant: the override does not test the state.
DisplayContentAnyState(response, state) ==
  IF TruthyFlag(response, "is_direct_answer_attempt")
    THEN [defined |-> TRUE, text |-> RedirectText]
  ELSE IF Has(response, "content_for_user")
    THEN [defined |-> TRUE, text |-> response.content_for_user]
  ELSE [defined |-> FALSE]

\* let displayContent = response.content_for_user; if (flag && GUIDING) ...
\* The result is a defined text or undefined.
DisplayContent(response, state) ==
  IF TruthyFlag(response, "is_direct_answer_attempt") /\ state = GUIDING
    THEN [defined |-> TRUE, text |-> RedirectText]
  ELSE IF Has(response, "content_for_user")
    THEN [defined |-> TRUE, text |-> response.content_for_user]
  ELSE [defined |-> FALSE]

\* Mutant: the metadata's content_for_user is replaced by the display text.
BotMetadataDisplayed(response, display) ==
  IF display.defined /\ Has(response, "content_for_user")
    THEN [response EXCEPT !.content_for_user = display.text]
    ELSE response

\* metadata: response
BotMetadata(response, display) == response

\* const botMsg = { id, role: 'assistant', content: displayContent, metadata: response }
BotMsg(tid, response, display) ==
  IF display.defined
    THEN [id |-> "now", ts |-> tid, role |-> "assistant", content |-> display.text,
          metadata |-> BotMetadata(response, display)]
    ELSE [id |-> "now", ts |-> tid, role |-> "assistant",
          metadata |-> BotMetadata(response, display)]

\* Mutant: the archive condition does not test the task mode.
ArchivesMistakeAnyMode(m, response) ==
  /\ TruthyString(response, "knowledge_point_id")
  /\ TruthyString(response, "internal_monologue")

\* if (mode === TaskMode.MISTAKE_ANALYSIS && response.knowledge_point_id && response.internal_monologue)
ArchivesMistake(m, response) ==
  /\ m = MISTAKE_ANALYSIS
  /\ TruthyString(response, "knowledge_point_id")
  /\ TruthyString(response, "internal_monologue")

\* The record handed to dbService.addMistake.
MistakeRecord(t, response) ==
  [question |-> t.text,
   analysis |-> response.internal_monologue,
   knowledgePoint |-> response.knowledge_point_id]

\* Mutant: the assistant turn is appended to the transcript as it is when the
\* response is handled.
FinalMessagesOnCurrent(t) ==
  Append(messages,
         BotMsg(t.tid, t.response,
                DisplayContent(t.response, GuardrailState(t.reqState, t.adopted))))

\* const finalMessages = [...updatedMessages, botMsg];
FinalMessages(t) ==
  Append(t.updatedMessages,
         BotMsg(t.tid, t.response,
                DisplayContent(t.response, GuardrailState(t.reqState, t.adopted))))

\* Mutant: the lock is released on the success path only.
LockAfterTurnCaught(caught) == caught

\* finally { setIsLoading(false); }
LockAfterTurn(caught) == FALSE

\* Mutant: the gateway is handed the transcript with the new user turn in it.
HistoryArgumentUpdated(prev, updated) == updated

\* sendMessageToLocalLLM(..., messages, userMsg.content): the captured
\* transcript (prev), not updatedMessages.
HistoryArgument(prev, updated) == prev

\* The handler reads the input box (text) and the task mode (m) as they are
\* when it starts; the settings panel may set the mode at any other time.
HandleSend(text) ==
  IF ~SendAccepted(text, isLoading)
    THEN UNCHANGED appVars
    ELSE /\ sends < MaxSends
         /\ \E m \in TaskMode :
              LET tid == sends + 1
                  updatedMessages == Append(messages, UserMsg(tid, text))
                  t == [tid |-> tid, pc |-> "fetch", text |-> text,
                        updatedMessages |-> updatedMessages,
                        reqState |-> currentState, reqMode |-> m,
                        apiMessages |->
                          apiMessages(
                            constructSystemPrompt(subject, student, m, currentState),
                            HistoryArgument(messages, updatedMessages), text),
                        response |-> Undefined, adopted |-> currentState,
                        resetSeen |-> FALSE]
              IN /\ messages' = updatedMessages
                 /\ isLoading' = TRUE
                 /\ turns' = turns \cup {t}
                 /\ sends' = tid
                 /\ netCalls' = netCalls + 1
         /\ UNCHANGED <<currentState, lastMetadata, savedHistory, mistakes>>

\* catch (error) { setMessages(prev => [...prev, errorMsg]) } finally { ... }
\* ends the turn t.
CatchAndFinish(t) ==
  /\ messages' = Append(messages, ErrorMsg(t.tid))
  /\ isLoading' = LockAfterTurn(TRUE)
  /\ turns' = turns \ {t}

\* Mutant: persistence is handed the transcript without the assistant turn.
SavedArgumentUpdated(final, updated) == updated

\* await dbService.saveChatHistory(student.email, finalMessages)
SavedArgument(final, updated) == final

\* Steps 5 and 6 up to the await of saveChatHistory, which is handed
\* finalMessages.  t is the turn as it stands in turns, u the turn with its
\* response.
AppendBotAndSave(t, u) ==
  LET v == [u EXCEPT !.pc = "save"] IN
  /\ messages' = FinalMessages(v)
  /\ savedHistory' = SavedArgument(FinalMessages(v), v.updatedMessages)
  /\ turns' = (turns \ {t}) \cup {v}
  /\ UNCHANGED isLoading

\* Mutant: a request that failed is sent once more.
RetriesOnFailure(o) == IF RequestBody(o).thrown THEN 1 ELSE 0

\* The fetch calls sendMessageToLocalLLM makes after its first: the catch
\* returns the fallback record, there is no loop.
Retries(o) == 0

\* The await of sendMessageToLocalLLM settles with what the HTTP call did (o).
GatewayReturns(t, o) ==
  /\ t.pc = "fetch"
  /\ LET p == sendMessageToLocalLLM(o) IN
     IF p.settled = "rejected"
       THEN /\ CatchAndFinish(t)
            /\ UNCHANGED <<currentState, lastMetadata, mistakes, savedHistory>>
     ELSE LET r == p.value IN
       IF r.jtype = "null"
         \* setLastMetadata(null), then response.suggested_next_state throws
         THEN /\ lastMetadata' = r
              /\ CatchAndFinish(t)
              /\ UNCHANGED <<currentState, mistakes, savedHistory>>
         ELSE LET adopted == NextState(r, t.reqState, currentState)
                  u == [t EXCEPT !.response = r, !.adopted = adopted]
              IN /\ lastMetadata' = r
                 /\ currentState' = adopted
                 /\ IF ArchivesMistake(t.reqMode, r)
                      \* await dbService.addMistake({...})
                      THEN /\ mistakes' = Append(mistakes, MistakeRecord(t, r))
                           /\ turns' = (turns \ {t}) \cup {[u EXCEPT !.pc = "addMistake"]}
                           /\ UNCHANGED <<messages, isLoading, savedHistory>>
                      ELSE /\ AppendBotAndSave(t, u)
                           /\ UNCHANGED mistakes
  /\ netCalls' = netCalls + Retries(o)
  /\ UNCHANGED sends

\* The await of dbService.addMistake settles: store.add(record) has succeeded
\* and the promise resolves, or the request fails and it rejects.
AddMistakeSettles(t, ok) ==
  /\ t.pc = "addMistake"
  /\ IF ok
       THEN /\ AppendBotAndSave(t, t)
            /\ mistakeStore' = Append(mistakeStore, MistakeRecord(t, t.response))
       ELSE /\ CatchAndFinish(t)
            /\ UNCHANGED <<savedHistory, mistakeStore>>
  /\ UNCHANGED <<currentState, lastMetadata, sends, netCalls, mistakes>>

\* store.put({ userEmail, messages, ... }) has succeeded.  IndexedDB runs the
\* requests in the order they were made: the record put is in the store
\* unless a later call (latest is the transcript handed last) has put its own.
StoreAfterPut(store, put, latest) == IF latest = put THEN put ELSE store

\* The await of dbService.saveChatHistory settles.
SaveSettles(t, ok) ==
  /\ t.pc = "save"
  /\ IF ok
       THEN /\ isLoading' = LockAfterTurn(FALSE)
            /\ turns' = turns \ {t}
            /\ chatStore' = StoreAfterPut(chatStore,
                                           SavedArgument(FinalMessages(t), t.updatedMessages),
                                           savedHistory)
            /\ UNCHANGED messages
       ELSE /\ CatchAndFinish(t)
            /\ UNCHANGED chatStore
  /\ UNCHANGED <<currentState, lastMetadata, sends, netCalls, savedHistory, mistakes>>

(* -------------------- App.tsx: handleResetSession --------------------- *)

\* Mutant: the reset leaves the last response in place.
ResetMetadataKept(old) == old

\* setLastMetadata(undefined)
ResetMetadata(old) == Undefined

\* The button is never disabled.  The handler ends by handing [resetMsg] to
\* saveChatHistory; nothing reads how that call settles, and its put is taken
\* to succeed.
HandleResetSession ==
  /\ messages' = <<ResetMsg>>
  /\ currentState' = GUIDING
  /\ lastMetadata' = ResetMetadata(lastMetadata)
  /\ savedHistory' = <<ResetMsg>>
  /\ chatStore' = <<ResetMsg>>
  /\ turns' = {[t EXCEPT !.resetSeen = TRUE] : t \in turns}
  /\ UNCHANGED <<isLoading, sends, netCalls, mistakes>>

(* ------------ App.tsx: settings panel and loadHistory effect ---------- *)

\* The subjects the learner picks in the settings panel.
SettingsSubjects == {MATH, SCIENCE}

\* useEffect(..., [student.email, student.grade, subject]): the effect runs
\* with the grade and the subject of the render that scheduled it, and awaits
\* dbService.getChatHistory.
LoadHistory(grade, subj) ==
  /\ settingsChanges < MaxSettingsChanges
  /\ settingsChanges' = settingsChanges + 1
  /\ loads' = loads \cup {[n |-> settingsChanges + 1, grade |-> grade, subject |-> subj]}

\* onChange={(e) => setSubject(e.target.value as Subject)}
SetSubject(subj) ==
  /\ subj # subject
  /\ subject' = subj
  /\ LoadHistory(student.grade, subj)
  /\ UNCHANGED <<student, messages, isLoading, currentState, lastMetadata, turns,
                 sends, netCalls, savedHistory, mistakes, chatStore>>

\* onChange={(e) => setStudent({...student, grade: e.target.value as Grade})}
SetGrade(grade) ==
  /\ grade # student.grade
  /\ student' = [student EXCEPT !.grade = grade]
  /\ LoadHistory(grade, subject)
  /\ UNCHANGED <<subject, messages, isLoading, currentState, lastMetadata, turns,
                 sends, netCalls, savedHistory, mistakes, chatStore>>

\* if (history && history.length > 0) setMessages(history); else
\* setMessages([welcome])
LoadedMessages(history, welcome) ==
  IF Len(history) > 0 THEN history ELSE <<welcome>>

\* The await of getChatHistory settles with the stored messages ([] when
\* there are none).
LoadHistorySettles(l) ==
  /\ l \in loads
  /\ loads' = loads \ {l}
  /\ messages' = LoadedMessages(chatStore, WelcomeMsg(l.grade, l.subject))
  /\ UNCHANGED <<settingsVars, settingsChanges, isLoading, currentState, lastMetadata,
                 turns, sends, netCalls, savedHistory, mistakes, chatStore>>

(* --------------------------- specifications --------------------------- *)

AppInit ==
  /\ subject = MATH
  /\ student = Profile(12, MIDDLE, "Intermediate")
  /\ messages = <<WelcomeMsg(MIDDLE, MATH)>>
  /\ isLoading = FALSE
  /\ currentState = GUIDING
  /\ lastMetadata = Undefined
  /\ turns = {}
  /\ sends = 0
  /\ netCalls = 0
  /\ savedHistory = <<>>
  /\ mistakes = <<>>
  /\ chatStore = <<>>
  /\ loads = {}
  /\ settingsChanges = 0
  /\ mistakeStore = <<>>

\* The session of the guest learner on an empty store, once the loadHistory
\* effect of the mount has put the welcome message in the transcript.
Init ==
  /\ AppInit
  /\ gwOutcome = NetworkError
  /\ gwResult = Pending
  /\ promptCall = Pending

gwVars == <<gwOutcome, gwResult>>
promptVars == <<promptCall>>

\* What the handlers of a turn and of a reset leave alone.
idleVars == <<gwVars, promptVars, settingsVars, loadVars>>

Send ==
  (\E text \in InputTexts : HandleSend(text))
    /\ UNCHANGED <<idleVars, chatStore, mistakeStore>>
Respond ==
  (\E t \in turns : \E o \in TurnOutcomes : GatewayReturns(t, o))
    /\ UNCHANGED <<idleVars, chatStore, mistakeStore>>
MistakeDone ==
  (\E t \in turns : \E ok \in BOOLEAN : AddMistakeSettles(t, ok))
    /\ UNCHANGED <<idleVars, chatStore>>
SaveDone ==
  (\E t \in turns : \E ok \in BOOLEAN : SaveSettles(t, ok))
    /\ UNCHANGED <<idleVars, mistakeStore>>
Reset == HandleResetSession /\ UNCHANGED <<idleVars, mistakeStore>>

Next ==
  \/ Send
  \/ Respond
  \/ MistakeDone
  \/ SaveDone
  \/ Reset

Spec == Init /\ [][Next]_vars

\* The session with the settings panel in use.
Settings ==
  /\ \/ \E subj \in SettingsSubjects : SetSubject(subj)
     \/ \E grade \in Grade : SetGrade(grade)
  /\ UNCHANGED <<gwVars, promptVars, mistakeStore>>

Load ==
  (\E l \in loads : LoadHistorySettles(l)) /\ UNCHANGED <<gwVars, promptVars, mistakeStore>>

SessionNext ==
  \/ Send
  \/ Respond
  \/ MistakeDone
  \/ SaveDone
  \/ Reset
  \/ Settings
  \/ Load

SessionSpec == Init /\ [][SessionNext]_vars

\* The HTTP call returns or fails, and the IndexedDB requests settle.
FairSpec ==
  Spec /\ WF_vars(Respond) /\ WF_vars(MistakeDone) /\ WF_vars(SaveDone)

\* The gateway alone: the HTTP call does one of HttpOutcomes, and
\* sendMessageToLocalLLM settles.
GatewayInit ==
  /\ AppInit
  /\ gwOutcome \in HttpOutcomes
  /\ gwResult = Pending
  /\ promptCall = Pending

GatewayCall ==
  /\ gwResult = Pending
  /\ gwResult' = sendMessageToLocalLLM(gwOutcome)
  /\ UNCHANGED <<gwOutcome, promptCall, appVars>>

GatewaySpec == GatewayInit /\ [][GatewayCall]_vars

\* The prompt builder alone: it is called once, for a subject, a profile, a
\* task mode and a state the session can be in.
Profiles ==
  {Profile(age, grade, level) : age \in {8, 12}, grade \in Grade, level \in MasteryLevel}

PromptInit ==
  /\ subject \in Subject
  /\ student \in Profiles
  /\ currentState \in PedagogicalState \cup {"REVIEWING"}
  /\ messages = <<>>
  /\ isLoading = FALSE
  /\ lastMetadata = Undefined
  /\ turns = {}
  /\ sends = 0
  /\ netCalls = 0
  /\ savedHistory = <<>>
  /\ mistakes = <<>>
  /\ chatStore = <<>>
  /\ loads = {}
  /\ settingsChanges = 0
  /\ mistakeStore = <<>>
  /\ gwOutcome = NetworkError
  /\ gwResult = Pending
  /\ promptCall = Pending

PromptCall ==
  /\ promptCall = Pending
  /\ \E mode \in TaskMode :
       promptCall' = [settled |-> "returned", mode |-> mode,
                      text |-> constructSystemPrompt(subject, student, mode, currentState)]
  /\ UNCHANGED <<gwVars, appVars>>

PromptSpec == PromptInit /\ [][PromptCall]_vars

(* ------------------------------- claims ------------------------------- *)

LastOf(ms) == ms[Len(ms)]

\* This step appends the assistant turn of u (u enters the await of the save).
BotAppended(u) ==
  /\ u \in turns'
  /\ u.pc = "save"
  /\ ~ \E t \in turns : t.tid = u.tid /\ t.pc = "save"

\* This step settles the gateway await of t.
GatewaySettled(t) ==
  /\ t \in turns
  /\ t.pc = "fetch"
  /\ ~ \E u \in turns' : u.tid = t.tid /\ u.pc = "fetch"

\* This step ends the handleSend invocation t.
Finished(t) ==
  /\ t \in turns
  /\ ~ \E u \in turns' : u.tid = t.tid

\* The display text of message m is the fixed redirect message.
ShowsRedirect(m) == "content" \in DOMAIN m /\ m.content = RedirectText

Flagged(r) == Has(r, "is_direct_answer_attempt") /\ r.is_direct_answer_attempt = TRUE

\* The display text of message m is the content_for_user of r, unchanged
\* (undefined when r has none).
ShowsContentOf(m, r) ==
  IF Has(r, "content_for_user")
    THEN "content" \in DOMAIN m /\ m.content = r.content_for_user
    ELSE "content" \notin DOMAIN m

\* C1: the assistant turn appended for a response shows the fixed redirect
\* message when the response is flagged as a direct-answer attempt and the
\* turn's request was built in GUIDING, and shows the response's
\* content_for_user unchanged in every other case.
C1_GuardrailDisplay ==
  [][\A u \in turns' :
       BotAppended(u) =>
         LET bot == LastOf(messages') IN
         /\ bot.role = "assistant"
         /\ IF Flagged(u.response) /\ u.reqState = GUIDING
              THEN ShowsRedirect(bot)
              ELSE ShowsContentOf(bot, u.response)]_vars

\* A flagged response to a request built in GUIDING, with its own answer
\* text, is shown as the redirect message.
C1_Witness ==
  \E u \in turns :
    /\ u.pc = "save"
    /\ IsStructuredResponse(u.response)
    /\ Flagged(u.response)
    /\ u.reqState = GUIDING
    /\ u.response.content_for_user # RedirectText
    /\ ShowsRedirect(LastOf(messages))

\* C2: the guardrail goes by the state the request was built in: a flagged
\* response to a GUIDING request is overridden although it moves the
\* controller to EXPLAINING or QUIZZING, and a flagged response to an
\* EXPLAINING or QUIZZING request is shown unchanged although it moves the
\* controller to GUIDING.
C2_GuardrailUsesRequestState ==
  [][/\ \A t \in turns :
          (GatewaySettled(t) /\ \E u \in turns' : u.tid = t.tid) =>
            LET u == CHOOSE u \in turns' : u.tid = t.tid IN
            /\ (t.reqState = GUIDING /\ Has(u.response, "suggested_next_state")
                   /\ u.response.suggested_next_state \in {EXPLAINING, QUIZZING})
                 => currentState' = u.response.suggested_next_state
            /\ (t.reqState \in {EXPLAINING, QUIZZING}
                   /\ Has(u.response, "suggested_next_state")
                   /\ u.response.suggested_next_state = GUIDING)
                 => currentState' = GUIDING
     /\ \A u \in turns' :
          (BotAppended(u) /\ Flagged(u.response)
             /\ Has(u.response, "suggested_next_state")) =>
            LET bot == LastOf(messages') IN
            /\ (u.reqState = GUIDING
                   /\ u.response.suggested_next_state \in {EXPLAINING, QUIZZING})
                 => ShowsRedirect(bot)
            /\ (u.reqState \in {EXPLAINING, QUIZZING}
                   /\ u.response.suggested_next_state = GUIDING)
                 => ShowsContentOf(bot, u.response)]_vars

\* A flagged response to an EXPLAINING request has moved the controller to
\* GUIDING and is shown with its own text.
C2_Witness ==
  \E u \in turns :
    /\ u.pc = "save"
    /\ IsStructuredResponse(u.response)
    /\ Flagged(u.response)
    /\ u.reqState = EXPLAINING
    /\ u.response.suggested_next_state = GUIDING
    /\ currentState = GUIDING
    /\ u.response.content_for_user # RedirectText
    /\ LastOf(messages).content = u.response.content_for_user

\* C3: when the guardrail overrides the display text, the assistant turn
\* appended to the transcript, and the transcript handed to the persistence
\* collaborator, carry as metadata the response exactly as the gateway
\* returned it, its content_for_user included.
C3_OverrideKeepsMetadata ==
  [][\A u \in turns' :
       (BotAppended(u) /\ Flagged(u.response) /\ u.reqState = GUIDING) =>
         LET bot == LastOf(messages') IN
         /\ ShowsRedirect(bot)
         /\ bot.metadata = u.response
         /\ Has(u.response, "content_for_user")
              => bot.metadata.content_for_user = u.response.content_for_user
         /\ savedHistory' = messages']_vars

\* An overridden turn is in the transcript and in the transcript handed to
\* persistence, with the model's own answer in its metadata.
C3_Witness ==
  /\ Len(savedHistory) > 1
  /\ LET bot == LastOf(savedHistory) IN
     /\ bot = LastOf(messages)
     /\ "metadata" \in DOMAIN bot
     /\ ShowsRedirect(bot)
     /\ IsStructuredResponse(bot.metadata)
     /\ bot.metadata.content_for_user = "The answer is 5/6."

\* C4: a turn sent in state s whose response suggests a different state t of
\* the enum, with no reset while the turn is in flight, ends with the
\* controller in t; no pair (s, t) is blocked.
C4_TransitionAdopted ==
  [][\A t \in turns :
       (Finished(t) /\ ~t.resetSeen /\ Has(t.response, "suggested_next_state")
          /\ t.response.suggested_next_state \in PedagogicalState
          /\ t.response.suggested_next_state # t.reqState)
       => currentState' = t.response.suggested_next_state]_vars

\* The first turn, sent in GUIDING, has ended with the controller in QUIZZING.
C4_Witness ==
  /\ sends = 1
  /\ ~isLoading
  /\ turns = {}
  /\ "metadata" \in DOMAIN LastOf(messages)
  /\ Has(LastOf(messages).metadata, "suggested_next_state")
  /\ LastOf(messages).metadata.suggested_next_state = QUIZZING
  /\ currentState = QUIZZING

\* C5: the controller's current state is always one of the three enum values.
C5_StateInEnum == currentState \in PedagogicalState

\* C6: the session starts in GUIDING, and a reset, from any state, sets the
\* state to GUIDING, leaves a transcript with no prior turn (the reset notice
\* alone), clears the last response, and hands that transcript to persistence.
C6_ResetReinitializes ==
  /\ currentState = GUIDING
  /\ [][HandleResetSession =>
          /\ currentState' = GUIDING
          /\ Len(messages') = 1
          /\ messages'[1].role = "assistant"
          /\ messages'[1].content = ResetText(student.grade, subject)
          /\ "metadata" \notin DOMAIN messages'[1]
          /\ lastMetadata' = Undefined
          /\ savedHistory' = messages']_vars

\* A reset has been performed while a turn that had moved the controller to
\* EXPLAINING was awaiting its save.
C6_Witness ==
  /\ \E u \in turns : u.resetSeen /\ u.pc = "save" /\ u.adopted = EXPLAINING
  /\ currentState = GUIDING
  /\ messages = <<ResetMsg>>
  /\ savedHistory = <<ResetMsg>>
  /\ lastMetadata = Undefined

\* C7: at most one turn is in flight; while the send-lock is set no step
\* starts a turn, calls the gateway or adds a user turn; the lock is set by
\* the step that starts a turn and cleared only by the step that ends it.
C7_SendLock ==
  /\ [](Cardinality(turns) <= 1 /\ (isLoading <=> turns # {}))
  /\ [][isLoading =>
          /\ sends' = sends
          /\ netCalls' = netCalls
          /\ \A u \in turns' : \E t \in turns : t.tid = u.tid
          /\ \/ Len(messages') <= Len(messages)
             \/ LastOf(messages').role # "user"]_vars
  /\ [][(sends' # sends) => (~isLoading /\ isLoading' /\ netCalls' = netCalls + 1)]_vars
  /\ [][(isLoading /\ ~isLoading') => \E t \in turns : Finished(t)]_vars

\* A turn is awaiting the gateway with the lock set, and the bound on sends
\* is not what stops a second send.
C7_Witness ==
  /\ isLoading
  /\ sends < MaxSends
  /\ \E t \in turns : t.pc = "fetch"
  /\ ~SendAccepted("What is 1/2 + 1/3?", isLoading)

\* This step appends exactly one assistant turn to the transcript.
AssistantAppended ==
  /\ Len(messages') = Len(messages) + 1
  /\ SubSeq(messages', 1, Len(messages)) = messages
  /\ LastOf(messages').role = "assistant"

\* C8: every turn that is started finishes once the HTTP call and the
\* database requests settle; on every path the step that ends the turn
\* releases the send-lock, so that a following send is accepted, and the turn
\* has put an assistant turn in the transcript: its reply when it reaches the
\* save, the error notice when it ends in the catch branch.
C8_TurnCompletes ==
  /\ isLoading ~> ~isLoading
  /\ [][\A t \in turns :
          Finished(t) =>
            /\ ~isLoading'
            /\ SendAccepted("What is 1/2 + 1/3?", isLoading')
            /\ (t.pc # "save") => AssistantAppended
            /\ (t.pc = "save") => (messages' = messages \/ AssistantAppended)]_vars
  /\ [][\A u \in turns' :
          BotAppended(u) =>
            /\ LastOf(messages').role = "assistant"
            /\ LastOf(messages').ts = u.tid]_vars

\* The first turn has ended in the catch branch, its addMistake call rejected:
\* the error notice follows its user turn, and the next send has been accepted
\* and awaits the gateway.
C8_Witness ==
  /\ sends = 2
  /\ \E t \in turns : t.tid = 2 /\ t.pc = "fetch"
  /\ Len(mistakes) = 1
  /\ Len(messages) >= 3
  /\ \E i \in 2..(Len(messages) - 1) :
       /\ messages[i - 1].role = "user"
       /\ messages[i - 1].ts = 1
       /\ messages[i].role = "assistant"
       /\ messages[i].content = SystemErrorText
       /\ messages[i + 1].role = "user"
       /\ messages[i + 1].ts = 2

(* The gateway alone. *)

\* The HTTP call failed: the network call, the status, a body that is no
\* JSON, a completion that is missing or empty, or one that cannot be parsed.
GatewayFailure(o) ==
  \/ o.kind \in {"network_error", "http_error", "bad_body"}
  \/ "content" \notin DOMAIN o
  \/ o.content = <<>>
  \/ LET t == Trim(StripFences(o.content)) IN ~(Len(t) = 1 /\ t[1].k = "json")

\* C9: sendMessageToLocalLLM never rejects, and on every failure it resolves
\* with the fallback record: ERR_CONN, score 0, GUIDING, flag false, and a
\* non-empty content_for_user.
C9_GatewayFallback ==
  gwResult # Pending =>
    /\ gwResult.settled = "fulfilled"
    /\ GatewayFailure(gwOutcome) =>
         /\ IsStructuredResponse(gwResult.value)
         /\ gwResult.value.knowledge_point_id = "ERR_CONN"
         /\ gwResult.value.student_mastery_score = 0
         /\ gwResult.value.suggested_next_state = GUIDING
         /\ gwResult.value.is_direct_answer_attempt = FALSE
         /\ gwResult.value.content_for_user # ""

\* The call has settled for a completion that is fenced text, no JSON.
C9_Witness ==
  /\ gwOutcome = Completion(<<Fence, Junk>>)
  /\ gwResult # Pending
  /\ gwResult.settled = "fulfilled"
  /\ gwResult.value.knowledge_point_id = "ERR_CONN"

\* C10: whatever the HTTP call does, the value the gateway hands to
\* handleSend is a StructuredResponse carrying all six fields, and the turn
\* goes on with it: handleSend does not end in its catch branch when the
\* gateway await settles.
C10_WellFormedResponse ==
  [][\A t \in turns :
       GatewaySettled(t) =>
         /\ IsStructuredResponse(lastMetadata')
         /\ \E u \in turns' : u.tid = t.tid /\ u.response = lastMetadata']_vars

(* The controller after a failed gateway call. *)

\* What the gateway returns for the HTTP calls that fail.
FailureResponses ==
  {sendMessageToLocalLLM(o).value : o \in {x \in TurnOutcomes : GatewayFailure(x)}}

FromFailure(r) == r \in FailureResponses

\* C11: a turn whose gateway call failed leaves the controller in GUIDING,
\* whatever the state was when the turn was sent: from the step that settles
\* the gateway await to the step that ends the turn.
C11_FailureFallsBackToGuiding ==
  /\ [](\A t \in turns : FromFailure(t.response) => currentState = GUIDING)
  /\ [][\A t \in turns :
          (Finished(t) /\ FromFailure(t.response)) => currentState' = GUIDING]_vars

\* A turn sent in QUIZZING whose HTTP call failed has put the controller
\* back in GUIDING.
C11_Witness ==
  \E t \in turns :
    /\ t.reqState = QUIZZING
    /\ FromFailure(t.response)
    /\ t.pc = "save"
    /\ currentState = GUIDING

(* The mistake archive. *)

\* Both fields of r that the archive record is built from are non-empty.
HasArchiveFields(r) ==
  /\ Has(r, "knowledge_point_id") /\ r.knowledge_point_id # ""
  /\ Has(r, "internal_monologue") /\ r.internal_monologue # ""

SendStarted(u) == u \in turns' /\ ~ \E t \in turns : t.tid = u.tid

\* Entry e of the request is the prior turn h: an assistant turn with
\* metadata as the JSON text of the whole response, any other turn as its
\* display text.
SendsTurn(e, h) ==
  /\ e.role = h.role
  /\ IF h.role = "assistant" /\ "metadata" \in DOMAIN h
       THEN /\ e.content = [k |-> "json", v |-> h.metadata]
            /\ "content" \in DOMAIN h => e.content # [k |-> "text", s |-> h.content]
       ELSE e.content = [k |-> "text", s |-> h.content]

\* The number of entries of req that carry the text str.
Occurrences(req, str) ==
  Cardinality({i \in 1..Len(req) : req[i].content = [k |-> "text", s |-> str]})

\* The request of a send: the system entry with the instruction text, the
\* transcript as it was at the send, entry by entry and in order, and the
\* new user text last.
RequestShape(u) ==
  LET req == u.apiMessages IN
  /\ Len(req) = Len(messages) + 2
  /\ req[1].role = "system"
  /\ req[1].content = constructSystemPrompt(subject, student, u.reqMode, currentState)
  /\ \A i \in 1..Len(messages) : SendsTurn(req[i + 1], messages[i])
  /\ req[Len(req)] = [role |-> "user", content |-> [k |-> "text", s |-> u.text]]

C14_OneNetworkCall ==
  /\ [](netCalls = sends)
  /\ [][\A u \in turns' : SendStarted(u) => netCalls' = netCalls + 1]_vars
  /\ [][(\A u \in turns' : ~SendStarted(u)) => netCalls' = netCalls]_vars

\* A turn whose HTTP call failed has ended with the fallback shown, a second
\* turn has been sent, and two calls have been made.
C14_Witness ==
  /\ sends = 2
  /\ netCalls = 2
  /\ \E i \in 1..Len(messages) :
       /\ "metadata" \in DOMAIN messages[i]
       /\ messages[i].ts = 1
       /\ FromFailure(messages[i].metadata)

(* The transcript. *)

\* C15: the step that appends a turn's assistant message leaves the
\* transcript as it was at the send, then the user turn, then that one
\* assistant turn with the display text and the response as metadata; and a
\* turn whose assistant message has been appended appends no second one.
C15_TwoTurnsPerExchange ==
  [][/\ \A u \in turns' :
          BotAppended(u) =>
            LET n == Len(u.updatedMessages)
                bot == LastOf(messages')
            IN /\ Len(messages') = n + 1
               /\ SubSeq(messages', 1, n) = u.updatedMessages
               /\ messages'[n] = UserMsg(u.tid, u.text)
               /\ bot.role = "assistant"
               /\ bot.metadata = u.response
     /\ \A t \in turns :
          (Finished(t) /\ t.pc = "save") => messages' = messages]_vars

IsPrefix(a, b) == Len(a) <= Len(b) /\ SubSeq(b, 1, Len(a)) = a

\* C16: the transcript is append-only between resets: every step other than
\* a reset (a send, a response, an error path, the history load after a
\* change of subject or grade) leaves the transcript it found as a prefix of
\* the transcript it leaves.
C16_AppendOnlyTranscript ==
  [][~HandleResetSession => IsPrefix(messages, messages')]_vars

\* C17: the transcript handed to the persistence collaborator by a turn that
\* has met no exception is the finalized transcript: it is the in-memory
\* transcript of that moment and ends with the turn's user message and then
\* its assistant message, display text and whole response; and a turn that
\* ends without an exception has handed it over.
C17_PersistsFinalTranscript ==
  [][/\ \A u \in turns' :
          BotAppended(u) =>
            LET n == Len(savedHistory')
                bot == savedHistory'[n]
            IN /\ savedHistory' = messages'
               /\ n >= 2
               /\ savedHistory'[n - 1] = UserMsg(u.tid, u.text)
               /\ bot.role = "assistant"
               /\ bot.metadata = u.response
               /\ IF Flagged(u.response) /\ u.reqState = GUIDING
                    THEN ShowsRedirect(bot)
                    ELSE ShowsContentOf(bot, u.response)
     /\ \A t \in turns :
          (Finished(t) /\ messages' = messages) => t.pc = "save"]_vars

\* The second turn of a session has handed over its finalized transcript:
\* five messages, the last two its user message and its assistant message.
C17_Witness ==
  /\ Len(savedHistory) = 5
  /\ savedHistory = messages
  /\ \E t \in turns :
       /\ t.pc = "save"
       /\ t.tid = 2
       /\ savedHistory[4] = UserMsg(2, t.text)
       /\ savedHistory[5].metadata = t.response
       /\ IsStructuredResponse(t.response)
       /\ ~Flagged(t.response)
       /\ savedHistory[5].content = t.response.content_for_user

(* The instruction text. *)

\* The directive phrases that occur in a prompt.
Phrases(prompt) == UNION {prompt[i].phrases : i \in 1..Len(prompt)}

\* The phrases of each state's behavioural directive.
StateDirective(state) ==
  CASE state = GUIDING -> {"DO NOT provide direct answers", "guiding questions"}
    [] state = EXPLAINING -> {"conceptual explanations", "analogies", "real-world examples"}
    [] state = QUIZZING -> {"NEW similar problem"}

\* C18: for each of the three states, and every subject, profile and task
\* mode, the instruction text holds the whole directive of that state and no
\* phrase of the directive of another state.
C18_StateDirective ==
  (promptCall # Pending /\ currentState \in PedagogicalState) =>
    /\ StateDirective(currentState) \subseteq Phrases(promptCall.text)
    /\ \A other \in PedagogicalState \ {currentState} :
         StateDirective(other) \cap Phrases(promptCall.text) = {}

\* The prompt has been built for a primary-school learner of Science in
\* EXPLAINING, in a mode other than mistake analysis.
C18_Witness ==
  /\ promptCall # Pending
  /\ currentState = EXPLAINING
  /\ subject = SCIENCE
  /\ student.grade = PRIMARY
  /\ promptCall.mode = HOMEWORK_HELP
  /\ "analogies" \in Phrases(promptCall.text)

\* The phrases of a directive to use concrete or life analogies, and of a
\* directive to emphasize formal definitions.
AnalogyPhrases == {"analogies", "concrete analogies", "life analogies"}
FormalDefinitionPhrases == {"formal definitions", "definitions"}

\* C19: the instruction text for a PRIMARY learner holds an analogy directive
\* and no formal-definition directive, the text for a MIDDLE learner a
\* formal-definition directive and no analogy directive, in every state and
\* task mode.
C19_GradeDirective ==
  promptCall # Pending =>
    LET said == Phrases(promptCall.text) IN
    /\ student.grade = PRIMARY =>
         (said \cap AnalogyPhrases # {} /\ said \cap FormalDefinitionPhrases = {})
    /\ student.grade = MIDDLE =>
         (said \cap FormalDefinitionPhrases # {} /\ said \cap AnalogyPhrases = {})

(* The parse order of the gateway. *)

\* The retry of the recovery policy: a leading fence marker, with its json
\* tag if it has one, and a trailing fence marker are removed.
StripOuterFences(raw) ==
  LET t == Trim(raw)
      a == IF Len(t) >= 2 /\ t[1] = Fence /\ t[2] = JsonWord THEN SubSeq(t, 3, Len(t))
           ELSE IF Len(t) >= 1 /\ t[1] = Fence THEN Tail(t)
           ELSE t
  IN IF Len(a) >= 1 /\ a[Len(a)] = Fence THEN SubSeq(a, 1, Len(a) - 1) ELSE a

\* C20: a completion that parses as it stands is returned as its direct
\* parse, nothing in it altered; one that does not is parsed again with its
\* leading and trailing fence markers removed, and nothing else.
C20_DirectParseFirst ==
  (gwResult # Pending /\ "content" \in DOMAIN gwOutcome /\ gwOutcome.content # <<>>) =>
    LET raw == gwOutcome.content
        direct == JSONParse(raw)
        retry == JSONParse(StripOuterFences(raw))
    IN /\ gwResult.settled = "fulfilled"
       /\ IF ~direct.thrown THEN gwResult.value = direct.value
          ELSE IF ~retry.thrown THEN gwResult.value = retry.value
          ELSE FromFailure(gwResult.value)

(* The fallback record and the failure classes. *)

\* The transport failed: fetch rejected, or the status is not 2xx.
TransportFailure(o) == o.kind \in {"network_error", "http_error"}

\* The completion arrived and cannot be parsed, cleaned or not.
ParseFailure(o) ==
  /\ o.kind = "ok"
  /\ "content" \in DOMAIN o
  /\ o.content # <<>>
  /\ ParseCompletion(o.content).thrown

\* C21: the text the learner is shown for a completion that cannot be parsed
\* differs from the text shown for every transport failure.
C21_FailureClassNamed ==
  (gwResult # Pending /\ ParseFailure(gwOutcome)) =>
    \A o \in {x \in HttpOutcomes : TransportFailure(x)} :
      gwResult.value.content_for_user # sendMessageToLocalLLM(o).value.content_for_user

(* The responses the controller exposes. *)

\* The responses attached to the turns of a transcript.
TurnMetadata(ms) ==
  {ms[i].metadata : i \in {j \in 1..Len(ms) : "metadata" \in DOMAIN ms[j]}}

\* C22: the student_mastery_score of the last response and of every response
\* attached to a turn of the transcript is an integer from 0 to 100.
C22_ScoreInRange ==
  \A r \in {lastMetadata} \cup TurnMetadata(messages) :
    Has(r, "student_mastery_score") => r.student_mastery_score \in 0..100

(* The views: the chat area, StateVisualizer.tsx and MistakeBook.tsx. *)

\* {messages.map(msg => <p>{msg.content}</p>)}: the texts of the chat area
\* (an undefined content renders nothing).
ChatArea(ms) ==
  {ms[i].content : i \in {j \in 1..Len(ms) : "content" \in DOMAIN ms[j]}}

\* The values StateVisualizer interpolates in the card it renders when
\* lastMetadata is truthy; an undefined value renders as the empty text.
StateVisualizer(state, meta) ==
  IF meta.jtype # "object"
    THEN [active |-> state]
    ELSE [active |-> state,
          badge |-> IF TruthyFlag(meta, "is_direct_answer_attempt")
                      THEN "Guardrail: Blocked Answer" ELSE "",
          conceptId |-> IF TruthyString(meta, "knowledge_point_id")
                          THEN meta.knowledge_point_id ELSE "ANALYZING...",
          masteryScore |-> IF Has(meta, "student_mastery_score")
                             THEN ToString(meta.student_mastery_score) ELSE "",
          monologue |-> IF Has(meta, "internal_monologue")
                          THEN meta.internal_monologue ELSE ""]

\* The values MistakeBook interpolates for the records it has loaded, one
\* card a record.
MistakeBook(records) ==
  [i \in 1..Len(records) |->
     [question |-> records[i].question,
      knowledgeGap |-> records[i].analysis,
      keyConcept |-> records[i].knowledgePoint]]

\* The texts a view puts on the screen.
Rendered(card) == {card[f] : f \in DOMAIN card}

\* The internal monologues of the responses the controller has received and
\* still holds: the last response and those attached to transcript turns.
Monologues ==
  {r.internal_monologue :
     r \in {x \in {lastMetadata} \cup TurnMetadata(messages) :
              TruthyString(x, "internal_monologue")}}

\* C23: no internal_monologue is the display text of a transcript turn, and
\* none is among the texts the state panel or the mistake book renders.
C23_MonologueHidden ==
  /\ ChatArea(messages) \cap Monologues = {}
  /\ Rendered(StateVisualizer(currentState, lastMetadata)) \cap Monologues = {}
  /\ \A i \in 1..Len(mistakeStore) :
       Rendered(MistakeBook(mistakeStore)[i]) \cap Monologues = {}

(* The request that is never answered. *)

\* The local service may leave a request unanswered for ever: nothing is
\* assumed of the HTTP call.  The IndexedDB requests settle.
UnansweredSpec == Spec /\ WF_vars(MistakeDone) /\ WF_vars(SaveDone)

\* C24: a turn that awaits the gateway is ended, the service answering or
\* not: its request does not stay pending and the send-lock is released.
C24_TimeoutEndsRequest ==
  \A n \in 1..MaxSends :
    (\E t \in turns : t.tid = n /\ t.pc = "fetch")
      ~> (~isLoading /\ ~ \E t \in turns : t.tid = n)

(* The state between the send and the response. *)

\* Response r suggests no state, or the state s the turn was sent in.
SuggestsNothingNew(r, s) ==
  \/ ~TruthyString(r, "suggested_next_state")
  \/ r.suggested_next_state = s

\* C25: the step that receives a response suggesting no state, the empty
\* string, or the state the turn was sent in leaves the current state as it
\* is; and while a turn awaits its response no step but a reset changes the
\* current state.
C25_StateFrame ==
  [][\A t \in turns :
       /\ (GatewaySettled(t) /\ SuggestsNothingNew(lastMetadata', t.reqState))
            => currentState' = currentState
       /\ (t.pc = "fetch" /\ ~GatewaySettled(t) /\ ~HandleResetSession)
            => currentState' = currentState]_vars

\* A turn sent in EXPLAINING has received a response that suggests no state,
\* and the controller is in EXPLAINING.
C25_Witness ==
  \E u \in turns :
    /\ u.reqState = EXPLAINING
    /\ ~u.resetSeen
    /\ IsStructuredResponse(u.response)
    /\ u.response.suggested_next_state = ""
    /\ lastMetadata = u.response
    /\ currentState = EXPLAINING

(* A reset while a turn has not returned. *)

\* Transcript ms is the transcript turn t captured when it was sent, with
\* the turn's user message and an assistant turn of t after it.
CapturedPlusExchange(ms, t) ==
  LET n == Len(t.updatedMessages) IN
  /\ Len(ms) = n + 1
  /\ SubSeq(ms, 1, n) = t.updatedMessages
  /\ ms[n].role = "user"
  /\ ms[n].ts = t.tid
  /\ ms[n + 1].role = "assistant"
  /\ ms[n + 1].ts = t.tid

\* This step ends turn t without the catch branch: its save has resolved.
FinishedInTry(t) == Finished(t) /\ t.pc = "save" /\ messages' = messages

C27_ComparesCapturedState ==
  /\ [][\A t \in turns :
          (GatewaySettled(t) /\ t.resetSeen /\ t.reqState # GUIDING
             /\ TruthyString(lastMetadata', "suggested_next_state")) =>
            /\ currentState = GUIDING
            /\ IF lastMetadata'.suggested_next_state = t.reqState
                 THEN currentState' = GUIDING
                 ELSE currentState' = lastMetadata'.suggested_next_state]_vars
  /\ [][\A t \in turns :
          (Finished(t) /\ t.resetSeen /\ t.reqState # GUIDING
             /\ TruthyString(t.response, "suggested_next_state")
             /\ t.response.suggested_next_state = t.reqState)
            => currentState' = GUIDING]_vars

\* A turn was sent in EXPLAINING, a reset came before its response, and the
\* response, which suggests EXPLAINING, has left the controller in GUIDING.
C27_Witness ==
  \E u \in turns :
    /\ u.pc = "save"
    /\ u.reqState = EXPLAINING
    /\ u.resetSeen
    /\ CapturedPlusExchange(messages, u)
    /\ IsStructuredResponse(u.response)
    /\ u.response.suggested_next_state = EXPLAINING
    /\ lastMetadata = u.response
    /\ currentState = GUIDING

(* The mistake archive after a failed gateway call. *)

\* The diagnostics the outer catch writes, one for each error it catches.
ConnectionDiagnostics ==
  {ConnectionDiagnostic(e) :
     e \in {"TypeError: Failed to fetch",
            "Error: Local API Error: 500 Internal Server Error",
            "SyntaxError: Unexpected token < in JSON",
            "Error: Empty response from local model",
            "Error: Failed to parse structured output from Local LLM"}}

\* C28: the step that receives the fallback record of a failed gateway call
\* hands one record to the mistake archive when the turn was sent in
\* MISTAKE_ANALYSIS mode, with the learner's text as question, ERR_CONN as
\* knowledge point and the connection diagnostic as analysis, and hands none
\* in the other task modes; no other step of the turn hands one.
C28_FailureArchived ==
  /\ [][\A t \in turns :
          (GatewaySettled(t) /\ FromFailure(lastMetadata')) =>
            IF t.reqMode = MISTAKE_ANALYSIS
              THEN /\ Len(mistakes') = Len(mistakes) + 1
                   /\ SubSeq(mistakes', 1, Len(mistakes)) = mistakes
                   /\ LastOf(mistakes').question = t.text
                   /\ LastOf(mistakes').knowledgePoint = "ERR_CONN"
                   /\ LastOf(mistakes').analysis = lastMetadata'.internal_monologue
                   /\ LastOf(mistakes').analysis \in ConnectionDiagnostics
              ELSE mistakes' = mistakes]_vars
  /\ [][(\A t \in turns : ~GatewaySettled(t)) => mistakes' = mistakes]_vars

\* A turn sent in MISTAKE_ANALYSIS mode whose HTTP call failed awaits the
\* archive call made for its fallback record.
C28_Witness ==
  \E u \in turns :
    /\ u.pc = "addMistake"
    /\ u.reqMode = MISTAKE_ANALYSIS
    /\ FromFailure(u.response)
    /\ Len(mistakes) = 1
    /\ mistakes[1].knowledgePoint = "ERR_CONN"
    /\ mistakes[1].analysis \in ConnectionDiagnostics

(* A state outside the enum. *)

Lines(block) == {block[i] : i \in 1..Len(block)}

\* Every line of the three state directives.
StateLines ==
  Lines(GuidingDirectives) \cup Lines(QuizzingDirectives)
    \cup UNION {Lines(ExplainingDirectives(p)) : p \in Profiles}

\* The instruction text of the request of turn t.
PromptOf(t) == t.apiMessages[1].content

IsErrorNotice(m, t) ==
  /\ m.role = "assistant"
  /\ m.ts = t.tid
  /\ "content" \in DOMAIN m
  /\ m.content = SystemErrorText
  /\ "metadata" \notin DOMAIN m

\* This step appends exactly one turn to the transcript.
AppendsOne ==
  /\ Len(messages') = Len(messages) + 1
  /\ SubSeq(messages', 1, Len(messages)) = messages

\* C30: the step that receives the response sets the state and the last
\* metadata and, when it makes the archive call, appends nothing yet.  When
\* the archive call rejects, the state and the last metadata stay as they
\* are, the error notice, with no metadata, is the only turn appended, and
\* nothing is handed to persistence or stored.  When the save rejects, the
\* error notice is appended after the assistant turn of the response, and
\* nothing is rolled back.
C30_NoRollback ==
  /\ [][\A u \in turns' :
          (u.pc = "addMistake" /\ \E t \in turns : t.tid = u.tid /\ t.pc = "fetch") =>
            /\ lastMetadata' = u.response
            /\ currentState' = u.adopted
            /\ messages' = messages
            /\ savedHistory' = savedHistory]_vars
  /\ [][\A t \in turns :
          (Finished(t) /\ t.pc = "addMistake") =>
            /\ currentState' = currentState
            /\ lastMetadata' = lastMetadata
            /\ (~t.resetSeen) => (currentState' = t.adopted /\ lastMetadata' = t.response)
            /\ AppendsOne
            /\ IsErrorNotice(LastOf(messages'), t)
            /\ \A i \in 1..Len(messages') :
                 ~("metadata" \in DOMAIN messages'[i] /\ messages'[i].ts = t.tid)
            /\ savedHistory' = savedHistory
            /\ chatStore' = chatStore
            /\ mistakeStore' = mistakeStore]_vars
  /\ [][\A t \in turns :
          (Finished(t) /\ t.pc = "save" /\ messages' # messages) =>
            /\ currentState' = currentState
            /\ lastMetadata' = lastMetadata
            /\ AppendsOne
            /\ IsErrorNotice(LastOf(messages'), t)
            /\ chatStore' = chatStore
            /\ CapturedPlusExchange(messages, t) =>
                 /\ LastOf(messages).role = "assistant"
                 /\ LastOf(messages).metadata = t.response]_vars

\* The archive call of the first turn, whose response moved the controller
\* from GUIDING to EXPLAINING, has rejected: the controller is in EXPLAINING
\* with that response as last metadata, the transcript ends with the user
\* turn and the error notice, and nothing was persisted.
C30_Witness ==
  /\ sends = 1
  /\ turns = {}
  /\ ~isLoading
  /\ currentState = EXPLAINING
  /\ IsStructuredResponse(lastMetadata)
  /\ lastMetadata.suggested_next_state = EXPLAINING
  /\ Len(mistakes) = 1
  /\ mistakeStore = <<>>
  /\ Len(messages) = 3
  /\ messages[2].role = "user"
  /\ messages[3] = ErrorMsg(1)
  /\ savedHistory = <<>>
  /\ chatStore = <<>>

====
